---- MODULE Spec2Model ----
(***************************************************************************)
(* Source roots of ra_analysis (crates/ra_analysis/src/roots.rs):          *)
(*   WritableSourceRoot  - files held in the salsa database db::RootDatabase *)
(*   FileData            - text plus two OnceCell memo cells                *)
(*   ReadonlySourceRoot  - file_map of FileData, eager module tree and      *)
(*                         symbol index                                     *)
(***************************************************************************)
EXTENDS Integers, Sequences, FiniteSets, TLC

(***************************************************************************)
(* Bounds of the model.                                                    *)
(***************************************************************************)
MaxBatchLen == 3        \* records one `changes` iterator yields at most
MaxRevision == 5        \* input writes of one behaviour (salsa revisions)
MaxFiles == 2           \* length of the file list given to ReadonlySourceRoot::new
MaxConcBatchLen == 2    \* MaxBatchLen while a reader runs beside the writer
MaxConcRevision == 3    \* MaxRevision while a reader runs beside the writer
MaxFrameBatchLen == 1   \* MaxBatchLen where every operation of the writable root runs
MaxSymBatchLen == 2     \* MaxBatchLen beside a reader of symbols
MaxSymRevision == 4     \* MaxRevision beside a reader of symbols
MaxLog == 2             \* diagnostics after which no further call is started

FileIds == {1, 2}
Texts == {"a", "b"}
\* texts on which File::parse panics
BadTexts == {"bad"}
Threads == {"t1", "t2"}
Resolvers == {"res0", "res1"}
\* the `file_resolver` arguments given to apply_changes
Overrides == {"None", "res1"}

\* Option::None of `Option<String>` and of `Option<FileResolverImp>`
None == "None"
\* an input key of the database that was never set
Unset == "unset"
\* FileResolverImp::default(), the resolver of a Default database
DefaultResolver == "res0"

\* one item of `changes`: (FileId, Option<String>)
Records == [file_id : FileIds, text : Texts \cup {None}]

VARIABLES
    file_text,      \* db input FileTextQuery: FileId -> Arc<String>
    file_set,       \* db input FileSetQuery: () -> Arc<FileSet {files, resolver}>
    revision,       \* db revision, advanced by every input write
    wpc,            \* position of the writer inside apply_changes
    changes,        \* the records the `changes` iterator has yielded so far
    changed,        \* local `changed` of apply_changes
    removed,        \* local `removed` of apply_changes
    file_resolver,  \* argument `file_resolver` of apply_changes
    pre,            \* the inputs as they were when apply_changes was entered
    wres,           \* last call of contains/lines/syntax on the writable root
    cpc,            \* position inside ReadonlySourceRoot::new
    files,          \* argument `files` of ReadonlySourceRoot::new
    ro_resolver,    \* argument `file_resolver` of ReadonlySourceRoot::new
    slots,          \* results of the workers of the running phase, by input index
    order,          \* the order in which the workers of each phase finished
    modules,        \* local `modules` of ReadonlySourceRoot::new
    module_tree,    \* ReadonlySourceRoot.module_tree
    symbol_index,   \* ReadonlySourceRoot.symbol_index
    file_map,       \* ReadonlySourceRoot.file_map: FileId -> FileData
    thr,            \* per thread: the call on the read-only root it is inside
    rret,           \* per thread: what its last call on the read-only root returned
    log,            \* the texts emitted through error!, in order
    q,              \* the reader beside the writer: the module_tree or symbols call it is inside
    qret            \* what the last call of that reader returned

wvars == <<file_text, file_set, revision, wpc, changes, changed, removed,
           file_resolver, pre, wres>>

\* ReadonlySourceRoot::new and the root it returns
cvars == <<cpc, files, ro_resolver, slots, order, modules, module_tree,
           symbol_index, file_map>>

rvars == <<thr, rret, log>>

qvars == <<q, qret>>

vars == <<wvars, cvars, rvars, qvars>>

(***************************************************************************)
(* Derived values.  A derivation is a pure function of the text; a handle  *)
(* is told apart by what it was computed from.                             *)
(***************************************************************************)
Fault == [tag |-> "panic", of |-> "", n |-> 0]
NoResult == [tag |-> "none", of |-> "", n |-> 0]
Bool(b) == [tag |-> "bool", of |-> IF b THEN "true" ELSE "false", n |-> 0]

\* LineIndex::new(&text)
LineIndexNew(text) == [tag |-> "LineIndex", of |-> text, n |-> 0]

\* File::parse(text): a pure function of the text, which may panic
FileParse(text) ==
    IF text \in BadTexts THEN Fault ELSE [tag |-> "File", of |-> text, n |-> 0]

\* ModuleDescriptor::new(syntax.ast())
ModuleDescriptorNew(syntax) == [tag |-> "ModuleDescriptor", of |-> syntax.of, n |-> 0]

\* no module tree, no symbol index
NoTree == [modules |-> <<>>, resolver |-> ""]
NoIndex == [tag |-> "none", parts |-> <<>>]

\* what a call returned: a value or a panic (contains, lines, syntax), or a
\* Cancelable (module_tree: `tree`; symbols: the accumulator `acc`)
NoCall == [tag |-> "none", op |-> "", file_id |-> 0, status |-> "", val |-> NoResult,
           tree |-> NoTree, acc |-> <<>>]
RetVal(op, f, v) ==
    [tag |-> "call", op |-> op, file_id |-> f,
     status |-> IF v = Fault THEN "panic" ELSE "returned",
     val |-> v, tree |-> NoTree, acc |-> <<>>]
RetTree(status, tree) ==
    [tag |-> "call", op |-> "module_tree", file_id |-> 0, status |-> status,
     val |-> NoResult, tree |-> tree, acc |-> <<>>]
RetAcc(status, acc) ==
    [tag |-> "call", op |-> "symbols", file_id |-> 0, status |-> status,
     val |-> NoResult, tree |-> NoTree, acc |-> acc]

(***************************************************************************)
(* WritableSourceRoot::apply_changes                                       *)
(***************************************************************************)

\* a loop body that keeps the first text set for an id in the batch
ProcessRecord_FirstWins(st, rec) ==
    IF rec.text = None
    THEN [st EXCEPT !.removed = @ \cup {rec.file_id}]
    ELSE IF rec.file_id \in st.changed
         THEN [st EXCEPT !.revision = @ + 1]
         ELSE [st EXCEPT !.text[rec.file_id] = rec.text,
                         !.revision = @ + 1,
                         !.changed = @ \cup {rec.file_id}]

\* a loop body whose deletion also clears the stored text
ProcessRecord_ClearOnDelete(st, rec) ==
    IF rec.text = None
    THEN [st EXCEPT !.removed = @ \cup {rec.file_id},
                    !.text[rec.file_id] = Unset]
    ELSE [st EXCEPT !.text[rec.file_id] = rec.text,
                    !.revision = @ + 1,
                    !.changed = @ \cup {rec.file_id}]

\* body of the `for (file_id, text) in changes` loop, on the locals and the
\* text input: st = [text, changed, removed, revision]
ProcessRecord(st, rec) ==
    IF rec.text = None
    THEN [st EXCEPT !.removed = @ \cup {rec.file_id}]
    ELSE [st EXCEPT !.text[rec.file_id] = rec.text,
                    !.revision = @ + 1,
                    !.changed = @ \cup {rec.file_id}]

\* a removal loop that removes nothing
RemoveAll_Nothing(members, rm) == members

\* files.clone() minus every id of `removed`
RemoveAll(members, rm) == members \ rm

\* removing after extending: a deletion would win over a set
NewFileSet_DeleteWins(fs, rm, ch, ov) ==
    [files |-> (fs.files \cup ch) \ rm,
     resolver |-> IF ov = None THEN fs.resolver ELSE ov]

\* a set record of a member takes it out of the membership again
NewFileSet_Toggle(fs, rm, ch, ov) ==
    [files |-> RemoveAll(fs.files, rm \cup ch) \cup (ch \ fs.files),
     resolver |-> IF ov = None THEN fs.resolver ELSE ov]

\* a missing override falls back to the resolver of a Default database
NewFileSet_DefaultResolver(fs, rm, ch, ov) ==
    [files |-> RemoveAll(fs.files, rm) \cup ch,
     resolver |-> IF ov = None THEN DefaultResolver ELSE ov]

\* the FileSet apply_changes stores: remove `removed`, extend by `changed`,
\* take the override resolver or keep the current one
NewFileSet(fs, rm, ch, ov) ==
    [files |-> RemoveAll(fs.files, rm) \cup ch,
     resolver |-> IF ov = None THEN fs.resolver ELSE ov]

\* the whole loop over a batch b, from position i
RECURSIVE RunLoop(_, _, _)
RunLoop(st, b, i) ==
    IF i > Len(b) THEN st ELSE RunLoop(ProcessRecord(st, b[i]), b, i + 1)

\* the FileSet after apply_changes(b, ov) entered with FileSet fs
FileSetAfter(fs, b, ov) ==
    LET st == RunLoop([text |-> [f \in FileIds |-> Unset], changed |-> {},
                       removed |-> {}, revision |-> 0], b, 1)
    IN NewFileSet(fs, st.removed, st.changed, ov)

\* the inputs [file_set, file_text] after apply_changes(b, ov) entered with
\* the inputs `inp`
InputsAfter(inp, b, ov) ==
    LET st == RunLoop([text |-> inp.file_text, changed |-> {}, removed |-> {},
                       revision |-> 0], b, 1)
    IN [file_set |-> NewFileSet(inp.file_set, st.removed, st.changed, ov),
        file_text |-> st.text]

ApplyBegin(ov, maxrev) ==
    /\ wpc = "idle"
    /\ revision < maxrev
    /\ wpc' = "loop"
    /\ changes' = <<>>
    /\ changed' = {}
    /\ removed' = {}
    /\ file_resolver' = ov
    /\ pre' = [file_set |-> file_set, file_text |-> file_text]
    /\ wres' = NoCall
    /\ UNCHANGED <<file_text, file_set, revision>>
    /\ UNCHANGED <<cvars, rvars, qvars>>

\* a loop that also publishes the membership record by record
ApplyRecord_Publish(rec, maxlen, maxrev) ==
    /\ wpc = "loop"
    /\ Len(changes) < maxlen
    /\ rec.text # None => revision + 1 < maxrev
    /\ LET st == ProcessRecord([text |-> file_text, changed |-> changed,
                                removed |-> removed, revision |-> revision], rec)
       IN /\ file_text' = st.text
          /\ changed' = st.changed
          /\ removed' = st.removed
          /\ revision' = st.revision
          /\ file_set' = NewFileSet(file_set, st.removed, st.changed, None)
    /\ changes' = Append(changes, rec)
    /\ UNCHANGED <<wpc, file_resolver, pre, wres>>
    /\ UNCHANGED <<cvars, rvars, qvars>>

ApplyRecord(rec, maxlen, maxrev) ==
    /\ wpc = "loop"
    /\ Len(changes) < maxlen
    /\ rec.text # None => revision + 1 < maxrev
    /\ LET st == ProcessRecord([text |-> file_text, changed |-> changed,
                                removed |-> removed, revision |-> revision], rec)
       IN /\ file_text' = st.text
          /\ changed' = st.changed
          /\ removed' = st.removed
          /\ revision' = st.revision
    /\ changes' = Append(changes, rec)
    /\ UNCHANGED <<file_set, wpc, file_resolver, pre, wres>>
    /\ UNCHANGED <<cvars, rvars, qvars>>

\* a commit that rebuilds the module tree of the new file set at once
ApplyCommit_Eager ==
    /\ wpc = "loop"
    /\ file_set' = NewFileSet(file_set, removed, changed, file_resolver)
    /\ revision' = revision + 1
    /\ wpc' = "idle"
    /\ qret' = RetTree("Ok", [modules |-> <<>>, resolver |-> file_set'.resolver])
    /\ UNCHANGED <<file_text, changes, changed, removed, file_resolver, pre, wres>>
    /\ UNCHANGED <<cvars, rvars, q>>

ApplyCommit ==
    /\ wpc = "loop"
    /\ file_set' = NewFileSet(file_set, removed, changed, file_resolver)
    /\ revision' = revision + 1
    /\ wpc' = "idle"
    /\ UNCHANGED <<file_text, changes, changed, removed, file_resolver, pre, wres>>
    /\ UNCHANGED <<cvars, rvars, qvars>>

(***************************************************************************)
(* impl SourceRoot for WritableSourceRoot: contains, lines, syntax         *)
(***************************************************************************)

\* a store that derives from whatever text it holds, member or not
DbFileLines_NoMembership(f) ==
    IF file_text[f] # Unset THEN LineIndexNew(file_text[f]) ELSE Fault

\* db.file_lines(file_id)
DbFileLines(f) ==
    IF f \in file_set.files THEN LineIndexNew(file_text[f]) ELSE Fault

\* db.file_syntax(file_id)
DbFileSyntax(f) ==
    IF f \in file_set.files THEN FileParse(file_text[f]) ELSE Fault

\* WritableSourceRoot::contains
WContainsValue(f) == f \in file_set.files

WContains(f) ==
    /\ wpc = "idle"
    /\ wres' = RetVal("contains", f, Bool(WContainsValue(f)))
    /\ UNCHANGED <<file_text, file_set, revision, wpc, changes, changed,
                   removed, file_resolver, pre>>
    /\ UNCHANGED <<cvars, rvars, qvars>>

\* a lines that admits the file it was asked for into the membership
WLines_Admit(f) ==
    /\ wpc = "idle"
    /\ wres' = RetVal("lines", f, DbFileLines(f))
    /\ file_set' = [file_set EXCEPT !.files = @ \cup {f}]
    /\ UNCHANGED <<file_text, revision, wpc, changes, changed,
                   removed, file_resolver, pre>>
    /\ UNCHANGED <<cvars, rvars, qvars>>

WLines(f) ==
    /\ wpc = "idle"
    /\ wres' = RetVal("lines", f, DbFileLines(f))
    /\ UNCHANGED <<file_text, file_set, revision, wpc, changes, changed,
                   removed, file_resolver, pre>>
    /\ UNCHANGED <<cvars, rvars, qvars>>

WSyntax(f) ==
    /\ wpc = "idle"
    /\ wres' = RetVal("syntax", f, DbFileSyntax(f))
    /\ UNCHANGED <<file_text, file_set, revision, wpc, changes, changed,
                   removed, file_resolver, pre>>
    /\ UNCHANGED <<cvars, rvars, qvars>>

(***************************************************************************)
(* ReadonlySourceRoot::new                                                 *)
(***************************************************************************)
FilePairs == [file_id : FileIds, text : Texts \cup BadTexts]
FileLists == UNION {[1..k -> FilePairs] : k \in 0..MaxFiles}

\* a slot of a parallel collect that no worker has filled yet
Pending == [file_id |-> 0, syntax |-> NoResult, mod_descr |-> NoResult]

\* the closure of `files.par_iter().map(..)`: parse, extract the descriptor
ParseOne(pair) ==
    LET syntax == FileParse(pair.text)
    IN [file_id |-> pair.file_id, syntax |-> syntax,
        mod_descr |-> ModuleDescriptorNew(syntax)]

\* a collect that keeps the items in the order the workers finished
Collect_CompletionOrder(slots_, ord) == [i \in 1..Len(ord) |-> slots_[ord[i]]]

\* `.collect::<Vec<_>>()` of an indexed parallel iterator: item i of the
\* input is item i of the Vec, whatever the order of completion
Collect(slots_, ord) == slots_

\* ModuleTreeDescriptor::new(modules.iter().map(|it| (it.0, &it.2)), &file_resolver)
ModuleTreeDescriptorNew(mods, resolver) ==
    [modules |-> [i \in 1..Len(mods) |->
                    [file_id |-> mods[i].file_id, syntax |-> NoResult,
                     mod_descr |-> mods[i].mod_descr]],
     resolver |-> resolver]

\* what one worker of SymbolIndex::for_files takes from (it.0, it.1.clone())
SymbolsOne(m) == [file_id |-> m.file_id, syntax |-> m.syntax, mod_descr |-> NoResult]

\* SymbolIndex::for_files: the merge of the per-file parts
SymbolIndexForFiles(parts) == [tag |-> "SymbolIndex", parts |-> parts]

NoFileData == [present |-> FALSE, text |-> "", lines |-> NoResult, syntax |-> NoResult,
               lines_runs |-> 0, syntax_runs |-> 0]

\* FileData::new(text)
FileDataNew(text) == [present |-> TRUE, text |-> text, lines |-> NoResult,
                      syntax |-> NoResult, lines_runs |-> 0, syntax_runs |-> 0]

\* files.into_iter().map(|(id, text)| (id, FileData::new(text))).collect():
\* a later pair of the same id replaces an earlier one
RECURSIVE FileMapOf(_, _, _)
FileMapOf(fm, list, i) ==
    IF i > Len(list) THEN fm
    ELSE FileMapOf([fm EXCEPT ![list[i].file_id] = FileDataNew(list[i].text)], list, i + 1)

\* no read-only root has been asked for
NoReadonlyRoot ==
    /\ cpc = "none"
    /\ files = <<>>
    /\ ro_resolver = DefaultResolver
    /\ slots = <<>>
    /\ order = [parse |-> <<>>, symbols |-> <<>>]
    /\ modules = <<>>
    /\ module_tree = NoTree
    /\ symbol_index = NoIndex
    /\ file_map = [f \in FileIds |-> NoFileData]

\* entry of ReadonlySourceRoot::new(files, file_resolver)
NewBegin(list, resolver) ==
    /\ cpc = "par_parse"
    /\ files = list
    /\ ro_resolver = resolver
    /\ slots = [i \in 1..Len(list) |-> Pending]
    /\ order = [parse |-> <<>>, symbols |-> <<>>]
    /\ modules = <<>>
    /\ module_tree = NoTree
    /\ symbol_index = NoIndex
    /\ file_map = [f \in FileIds |-> NoFileData]

Finished(ord, i) == \E k \in 1..Len(ord) : ord[k] = i

\* one worker of the first par_iter finishes item i; a panic of the parser
\* ends the construction
ParseWorker(i) ==
    /\ cpc = "par_parse"
    /\ i \in 1..Len(files)
    /\ ~Finished(order.parse, i)
    /\ LET m == ParseOne(files[i])
       IN IF m.syntax = Fault
          THEN /\ cpc' = "panicked"
               /\ UNCHANGED <<slots, order>>
          ELSE /\ slots' = [slots EXCEPT ![i] = m]
               /\ order' = [order EXCEPT !.parse = Append(@, i)]
               /\ UNCHANGED cpc
    /\ UNCHANGED <<files, ro_resolver, modules, module_tree, symbol_index, file_map>>
    /\ UNCHANGED <<wvars, rvars, qvars>>

\* the collect returns and the module tree is built from `modules`
BuildModuleTree ==
    /\ cpc = "par_parse"
    /\ Len(order.parse) = Len(files)
    /\ LET mods == Collect(slots, order.parse)
       IN /\ modules' = mods
          /\ module_tree' = ModuleTreeDescriptorNew(mods, ro_resolver)
    /\ slots' = [i \in 1..Len(files) |-> Pending]
    /\ cpc' = "par_symbols"
    /\ UNCHANGED <<files, ro_resolver, order, symbol_index, file_map>>
    /\ UNCHANGED <<wvars, rvars, qvars>>

\* one worker of `modules.par_iter()` inside SymbolIndex::for_files
SymbolWorker(i) ==
    /\ cpc = "par_symbols"
    /\ i \in 1..Len(modules)
    /\ ~Finished(order.symbols, i)
    /\ slots' = [slots EXCEPT ![i] = SymbolsOne(modules[i])]
    /\ order' = [order EXCEPT !.symbols = Append(@, i)]
    /\ UNCHANGED <<cpc, files, ro_resolver, modules, module_tree, symbol_index, file_map>>
    /\ UNCHANGED <<wvars, rvars, qvars>>

\* for_files returns and the file map is built
BuildRoot ==
    /\ cpc = "par_symbols"
    /\ Len(order.symbols) = Len(modules)
    /\ symbol_index' = SymbolIndexForFiles(Collect(slots, order.symbols))
    /\ file_map' = FileMapOf([f \in FileIds |-> NoFileData], files, 1)
    /\ cpc' = "merged"
    /\ UNCHANGED <<files, ro_resolver, slots, order, modules, module_tree>>
    /\ UNCHANGED <<wvars, rvars, qvars>>

\* the root is returned and the locals of `new` are dropped
NewReturn ==
    /\ cpc = "merged"
    /\ cpc' = "built"
    /\ slots' = <<>>
    /\ order' = [parse |-> <<>>, symbols |-> <<>>]
    /\ modules' = <<>>
    /\ UNCHANGED <<files, ro_resolver, module_tree, symbol_index, file_map>>
    /\ UNCHANGED <<wvars, rvars, qvars>>

(***************************************************************************)
(* FileData (the two OnceCell memo cells) and impl SourceRoot for          *)
(* ReadonlySourceRoot.  Several threads share the root by `&self`.         *)
(***************************************************************************)
Idle == [pc |-> "idle", op |-> "", file_id |-> 0]

\* the memo cell of FileData that `op` reads
Cell(data, op) == IF op = "lines" THEN data.lines ELSE data.syntax
Runs(data, op) == IF op = "lines" THEN data.lines_runs ELSE data.syntax_runs

\* a cell that never reports a value
CellFilled_Never(cell) == FALSE

\* OnceCell::get: the cell holds a value
CellFilled(cell) == cell # NoResult

\* an initialiser that never waits for another
MayInit_NoExclusion(t, op, f) == TRUE

\* OnceCell::get_or_init runs the closure of one caller at a time: t may
\* run it when no other thread is running it for the same cell
MayInit(t, op, f) ==
    \A u \in Threads \ {t} :
        ~(thr[u].pc = "init" /\ thr[u].op = op /\ thr[u].file_id = f)

\* the closures: Arc::new(LineIndex::new(&self.text)) and File::parse(text)
Derive(op, text) == IF op = "lines" THEN LineIndexNew(text) ELSE FileParse(text)

\* the k-th value computed for a cell is a handle of its own
Handle(v, k) == [v EXCEPT !.n = k]

\* a lookup that answers an unknown id with the data of an empty file
Data_DefaultOnMiss(fm, f) == IF fm[f].present THEN fm[f] ELSE FileDataNew("a")

\* ReadonlySourceRoot::data: self.file_map.get(&file_id), None is a panic
Data(fm, f) == IF fm[f].present THEN fm[f] ELSE NoFileData

\* a lookup that inserts an entry for the id it did not find
AfterLookup_Insert(fm, f) ==
    IF fm[f].present THEN fm ELSE [fm EXCEPT ![f] = FileDataNew("a")]

\* the file map after data(file_id): `get` takes &self and changes nothing
AfterLookup(fm, f) == fm

\* ReadonlySourceRoot::contains
RContainsValue(f) == file_map[f].present

RContains(t, f) ==
    /\ cpc = "built"
    /\ thr[t].pc = "idle"
    /\ rret' = [rret EXCEPT ![t] = RetVal("contains", f, Bool(RContainsValue(f)))]
    /\ UNCHANGED <<thr, log, wvars, cvars, qvars>>

\* a result that copies the cancellation of the writable root
ReadonlyModuleTree_Cancelable == RetTree(IF revision > 0 THEN "Canceled" ELSE "Ok", module_tree)

\* ReadonlySourceRoot::module_tree: Ok(Arc::clone(&self.module_tree))
ReadonlyModuleTree == RetTree("Ok", module_tree)

RModuleTree(t) ==
    /\ cpc = "built"
    /\ thr[t].pc = "idle"
    /\ rret' = [rret EXCEPT ![t] = ReadonlyModuleTree]
    /\ UNCHANGED <<thr, log, wvars, cvars, qvars>>

\* a symbols that hands back an accumulator holding its own index only
ReadonlySymbols_Replace(acc) == RetAcc("Ok", <<symbol_index>>)

\* ReadonlySourceRoot::symbols: acc.push(Arc::clone(&self.symbol_index)); Ok(())
ReadonlySymbols(acc) == RetAcc("Ok", Append(acc, symbol_index))

\* the accumulators handed to symbols: empty, or holding an index of another root
OtherIndex == [tag |-> "SymbolIndex", parts |-> <<>>]
Accs == {<<>>, <<OtherIndex>>}

RSymbols(t, acc) ==
    /\ cpc = "built"
    /\ thr[t].pc = "idle"
    /\ rret' = [rret EXCEPT ![t] = ReadonlySymbols(acc)]
    /\ UNCHANGED <<thr, log, wvars, cvars, qvars>>

\* lines(file_id) or syntax(file_id) is entered: self.data(file_id)
RCall(t, op, f) ==
    /\ cpc = "built"
    /\ thr[t].pc = "idle"
    /\ Len(log) < MaxLog
    /\ file_map' = AfterLookup(file_map, f)
    /\ IF Data(file_map, f) = NoFileData
       THEN /\ rret' = [rret EXCEPT ![t] = RetVal(op, f, Fault)]
            /\ UNCHANGED thr
       ELSE /\ thr' = [thr EXCEPT ![t] = [pc |-> "get_or_init", op |-> op, file_id |-> f]]
            /\ rret' = [rret EXCEPT ![t] = NoCall]
    /\ UNCHANGED <<cpc, files, ro_resolver, slots, order, modules, module_tree, symbol_index>>
    /\ UNCHANGED <<log, wvars, qvars>>

\* get_or_init: return the value of a filled cell, or start running the
\* closure; a thread that finds another one running it waits
RGetOrInit(t) ==
    /\ thr[t].pc = "get_or_init"
    /\ LET op == thr[t].op
           f == thr[t].file_id
           cell == Cell(Data(file_map, f), op)
       IN IF CellFilled(cell)
          THEN /\ rret' = [rret EXCEPT ![t] = RetVal(op, f, cell)]
               /\ thr' = [thr EXCEPT ![t] = Idle]
          ELSE /\ MayInit(t, op, f)
               /\ thr' = [thr EXCEPT ![t].pc = "init"]
               /\ UNCHANGED rret
    /\ UNCHANGED <<log, wvars, cvars, qvars>>

\* the closure returns and its value is stored in the cell; a panic of the
\* parser leaves the cell empty, lets a waiting caller run the closure in
\* its turn, and unwinds into the catch_unwind of FileData::syntax
RInitDone(t) ==
    /\ thr[t].pc = "init"
    /\ LET op == thr[t].op
           f == thr[t].file_id
           data == Data(file_map, f)
           v == Derive(op, data.text)
           h == Handle(v, Runs(data, op) + 1)
       IN IF v = Fault
          THEN /\ thr' = [thr EXCEPT ![t].pc = "caught"]
               /\ UNCHANGED <<file_map, rret>>
          ELSE /\ file_map' =
                    IF op = "lines"
                    THEN [file_map EXCEPT ![f].lines = h, ![f].lines_runs = @ + 1]
                    ELSE [file_map EXCEPT ![f].syntax = h, ![f].syntax_runs = @ + 1]
               /\ rret' = [rret EXCEPT ![t] = RetVal(op, f, h)]
               /\ thr' = [thr EXCEPT ![t] = Idle]
    /\ UNCHANGED <<cpc, files, ro_resolver, slots, order, modules, module_tree, symbol_index>>
    /\ UNCHANGED <<log, wvars, qvars>>

\* Err(err) => error!("Parser paniced on:\n------\n{}\n------\n", text)
RLogError(t) ==
    /\ thr[t].pc = "caught"
    /\ log' = Append(log, Data(file_map, thr[t].file_id).text)
    /\ thr' = [thr EXCEPT ![t].pc = "logged"]
    /\ UNCHANGED <<rret, wvars, cvars, qvars>>

\* a handler that answers the panic with the tree of an empty text
AfterCatch_Swallow(err) == FileParse("")

\* what leaves FileData::syntax after the catch: the caught payload
AfterCatch(err) == err

\* panic::resume_unwind(err)
RResumeUnwind(t) ==
    /\ thr[t].pc = "logged"
    /\ rret' = [rret EXCEPT ![t] = RetVal(thr[t].op, thr[t].file_id, AfterCatch(Fault))]
    /\ thr' = [thr EXCEPT ![t] = Idle]
    /\ UNCHANGED <<log, wvars, cvars, qvars>>

(***************************************************************************)
(* A reader beside the writer: module_tree and symbols of the writable     *)
(* root, read through the database while apply_changes writes its inputs,  *)
(* and the same two calls on a read-only root.                             *)
(***************************************************************************)
NoInputs == [file_set |-> [files |-> {}, resolver |-> ""],
             file_text |-> [f \in FileIds |-> Unset]]
Inputs == [file_set |-> file_set, file_text |-> file_text]

QIdle == [pc |-> "idle", op |-> "", root |-> "", rev |-> 0, fs |-> NoInputs.file_set,
          todo |-> {}, texts |-> NoInputs.file_text, acc0 |-> <<>>, acc |-> <<>>,
          snap |-> NoInputs, stale |-> FALSE]

\* a check that never sees a new revision
IsCanceled_Never(rev) == FALSE

\* the cancellation check of a derived query: a revision newer than the one
\* the read started from has been committed
IsCanceled(rev) == revision # rev

\* the members of S in ascending order
Ascending(S) ==
    [i \in 1..Cardinality(S) |-> CHOOSE f \in S : Cardinality({g \in S : g <= f}) = i]

\* db.module_tree(): the module tree of the files of a FileSet and their texts
DbModuleTree(fs, texts) ==
    ModuleTreeDescriptorNew(
        [i \in 1..Cardinality(fs.files) |->
            ParseOne([file_id |-> Ascending(fs.files)[i],
                      text |-> texts[Ascending(fs.files)[i]]])],
        fs.resolver)

\* db.file_symbols(file_id): the symbol index of one file
DbFileSymbols(f, text) ==
    SymbolIndexForFiles(<<SymbolsOne(ParseOne([file_id |-> f, text |-> text]))>>)

\* the reader enters module_tree() or symbols(acc) of the writable root
QBegin(op, acc) ==
    /\ q.pc = "idle"
    /\ q' = [QIdle EXCEPT !.pc = IF op = "module_tree" THEN "tree_file_set" ELSE "sym_file_set",
                          !.op = op, !.root = "rw", !.rev = revision,
                          !.acc0 = acc, !.acc = acc, !.snap = Inputs]
    /\ qret' = NoCall
    /\ UNCHANGED <<wvars, cvars, rvars>>

\* the call returns
QReturn(ret) ==
    /\ q' = [q EXCEPT !.pc = "idle", !.stale = (revision # q.rev)]
    /\ qret' = ret

\* WritableSourceRoot::module_tree: self.db.module_tree()
WritableModuleTree(r) == r

\* db.module_tree() reads the file set
QTreeFileSet ==
    /\ q.pc = "tree_file_set"
    /\ IF IsCanceled(q.rev)
       THEN QReturn(WritableModuleTree(RetTree("Canceled", NoTree)))
       ELSE /\ q' = [q EXCEPT !.pc = "tree_texts", !.fs = file_set, !.todo = file_set.files]
            /\ UNCHANGED qret
    /\ UNCHANGED <<wvars, cvars, rvars>>

\* db.module_tree() reads the text of one file of the set
QTreeText(f) ==
    /\ q.pc = "tree_texts"
    /\ f \in q.todo
    /\ IF IsCanceled(q.rev)
       THEN QReturn(WritableModuleTree(RetTree("Canceled", NoTree)))
       ELSE /\ q' = [q EXCEPT !.texts[f] = file_text[f], !.todo = @ \ {f}]
            /\ UNCHANGED qret
    /\ UNCHANGED <<wvars, cvars, rvars>>

\* db.module_tree() returns
QTreeFinish ==
    /\ q.pc = "tree_texts"
    /\ q.todo = {}
    /\ IF IsCanceled(q.rev)
       THEN QReturn(WritableModuleTree(RetTree("Canceled", NoTree)))
       ELSE QReturn(WritableModuleTree(RetTree("Ok", DbModuleTree(q.fs, q.texts))))
    /\ UNCHANGED <<wvars, cvars, rvars>>

\* WritableSourceRoot::symbols: `self.db.file_set().files.iter()`
QSymbolsFileSet ==
    /\ q.pc = "sym_file_set"
    /\ q' = [q EXCEPT !.pc = "sym_loop", !.fs = file_set, !.todo = file_set.files,
                      !.snap = Inputs]
    /\ UNCHANGED qret
    /\ UNCHANGED <<wvars, cvars, rvars>>

\* a loop that hands the accumulator back as it got it when canceled
QFileSymbols_Rollback(f) ==
    /\ q.pc = "sym_loop"
    /\ f \in q.todo
    /\ IF IsCanceled(q.rev)
       THEN QReturn(RetAcc("Canceled", q.acc0))
       ELSE /\ q' = [q EXCEPT !.acc = Append(@, DbFileSymbols(f, file_text[f])),
                              !.todo = @ \ {f}]
            /\ UNCHANGED qret
    /\ UNCHANGED <<wvars, cvars, rvars>>

\* one turn of the loop: `self.db.file_symbols(file_id)?` and `acc.push(symbols)`
QFileSymbols(f) ==
    /\ q.pc = "sym_loop"
    /\ f \in q.todo
    /\ IF IsCanceled(q.rev)
       THEN QReturn(RetAcc("Canceled", q.acc))
       ELSE /\ q' = [q EXCEPT !.acc = Append(@, DbFileSymbols(f, file_text[f])),
                              !.todo = @ \ {f}]
            /\ UNCHANGED qret
    /\ UNCHANGED <<wvars, cvars, rvars>>

\* the loop is over: Ok(())
QSymbolsReturn ==
    /\ q.pc = "sym_loop"
    /\ q.todo = {}
    /\ QReturn(RetAcc("Ok", q.acc))
    /\ UNCHANGED <<wvars, cvars, rvars>>

\* the reader calls module_tree() of the read-only root
QReadonlyModuleTree ==
    /\ q.pc = "idle"
    /\ cpc = "built"
    /\ q' = [QIdle EXCEPT !.op = "module_tree", !.root = "ro", !.rev = revision]
    /\ qret' = ReadonlyModuleTree
    /\ UNCHANGED <<wvars, cvars, rvars>>

\* the reader calls symbols(acc) of the read-only root
QReadonlySymbols(acc) ==
    /\ q.pc = "idle"
    /\ cpc = "built"
    /\ q' = [QIdle EXCEPT !.op = "symbols", !.root = "ro", !.rev = revision, !.acc0 = acc]
    /\ qret' = ReadonlySymbols(acc)
    /\ UNCHANGED <<wvars, cvars, rvars>>

\* a read-only root as ReadonlySourceRoot::new returns it
BuiltRoot(list, resolver) ==
    /\ cpc = "built"
    /\ files = list
    /\ ro_resolver = resolver
    /\ slots = <<>>
    /\ order = [parse |-> <<>>, symbols |-> <<>>]
    /\ modules = <<>>
    /\ module_tree =
          ModuleTreeDescriptorNew([i \in 1..Len(list) |-> ParseOne(list[i])], resolver)
    /\ symbol_index =
          SymbolIndexForFiles([i \in 1..Len(list) |-> SymbolsOne(ParseOne(list[i]))])
    /\ file_map = FileMapOf([f \in FileIds |-> NoFileData], list, 1)

(***************************************************************************)
(* The writable root alone: batches and the calls between them.            *)
(***************************************************************************)
\* WritableSourceRoot::default(): no text set, an empty file set
WritableDefault ==
    /\ file_text = [f \in FileIds |-> Unset]
    /\ file_set = [files |-> {}, resolver |-> DefaultResolver]
    /\ revision = 0
    /\ wpc = "idle"
    /\ changes = <<>>
    /\ changed = {}
    /\ removed = {}
    /\ file_resolver = None
    /\ pre = [file_set |-> file_set, file_text |-> file_text]
    /\ wres = NoCall

NoThreads ==
    /\ thr = [t \in Threads |-> Idle]
    /\ rret = [t \in Threads |-> NoCall]
    /\ log = <<>>

NoReader ==
    /\ q = QIdle
    /\ qret = NoCall

WInit == WritableDefault /\ NoReadonlyRoot /\ NoThreads /\ NoReader

WNext ==
    \/ \E ov \in Overrides : ApplyBegin(ov, MaxRevision)
    \/ \E rec \in Records : ApplyRecord(rec, MaxBatchLen, MaxRevision)
    \/ ApplyCommit
    \/ \E f \in FileIds : WContains(f)
    \/ \E f \in FileIds : WLines(f)
    \/ \E f \in FileIds : WSyntax(f)

SpecW == WInit /\ [][WNext]_vars

(***************************************************************************)
(* The read-only root: its construction, then the calls of the threads.    *)
(***************************************************************************)
RInit ==
    /\ WritableDefault
    /\ \E list \in FileLists, resolver \in Resolvers : NewBegin(list, resolver)
    /\ NoThreads
    /\ NoReader

RNext ==
    \/ \E i \in 1..MaxFiles : ParseWorker(i)
    \/ BuildModuleTree
    \/ \E i \in 1..MaxFiles : SymbolWorker(i)
    \/ BuildRoot
    \/ NewReturn
    \/ \E t \in Threads, f \in FileIds : RContains(t, f)
    \/ \E t \in Threads : RModuleTree(t)
    \/ \E t \in Threads, acc \in Accs : RSymbols(t, acc)
    \/ \E t \in Threads, op \in {"lines", "syntax"}, f \in FileIds : RCall(t, op, f)
    \/ \E t \in Threads : RGetOrInit(t)
    \/ \E t \in Threads : RInitDone(t)

SpecR == RInit /\ [][RNext]_vars

(***************************************************************************)
(* FileData on its own: a file map of FileData::new(text) for any texts,   *)
(* those on which the parser panics included, and the lines and syntax     *)
(* calls of the threads on it.                                             *)
(***************************************************************************)
\* a root whose file map holds FileData::new(text) for the pairs of `list`
FileDataRoot(list) ==
    /\ cpc = "built"
    /\ files = list
    /\ ro_resolver = DefaultResolver
    /\ slots = <<>>
    /\ order = [parse |-> <<>>, symbols |-> <<>>]
    /\ modules = <<>>
    /\ module_tree = NoTree
    /\ symbol_index = NoIndex
    /\ file_map = FileMapOf([f \in FileIds |-> NoFileData], list, 1)

FInit ==
    /\ WritableDefault
    /\ \E list \in FileLists : FileDataRoot(list)
    /\ NoThreads
    /\ NoReader

FNext ==
    \/ \E t \in Threads, op \in {"lines", "syntax"}, f \in FileIds : RCall(t, op, f)
    \/ \E t \in Threads : RGetOrInit(t)
    \/ \E t \in Threads : RInitDone(t)
    \/ \E t \in Threads : RLogError(t)
    \/ \E t \in Threads : RResumeUnwind(t)

SpecF == FInit /\ [][FNext]_vars

(***************************************************************************)
(* The writer and one reader side by side, with a built read-only root.    *)
(***************************************************************************)
CInit ==
    /\ WritableDefault
    /\ BuiltRoot(<<[file_id |-> 1, text |-> "a"]>>, DefaultResolver)
    /\ NoThreads
    /\ NoReader

CNext ==
    \/ \E ov \in Overrides : ApplyBegin(ov, MaxConcRevision)
    \/ \E rec \in Records : ApplyRecord(rec, MaxConcBatchLen, MaxConcRevision)
    \/ ApplyCommit
    \/ \E op \in {"module_tree", "symbols"}, acc \in Accs : QBegin(op, acc)
    \/ QTreeFileSet
    \/ \E f \in FileIds : QTreeText(f)
    \/ QTreeFinish
    \/ QSymbolsFileSet
    \/ \E f \in FileIds : QFileSymbols(f)
    \/ QSymbolsReturn
    \/ QReadonlyModuleTree
    \/ \E acc \in Accs : QReadonlySymbols(acc)

SpecC == CInit /\ [][CNext]_vars

(***************************************************************************)
(* The writable root with all of its operations: apply_changes, the calls  *)
(* between batches, and a reader of module_tree and symbols beside the     *)
(* writer.                                                                 *)
(***************************************************************************)
EInit == WritableDefault /\ NoReadonlyRoot /\ NoThreads /\ NoReader

ENext ==
    \/ \E ov \in Overrides : ApplyBegin(ov, MaxConcRevision)
    \/ \E rec \in Records : ApplyRecord(rec, MaxFrameBatchLen, MaxConcRevision)
    \/ ApplyCommit
    \/ \E f \in FileIds : WContains(f)
    \/ \E f \in FileIds : WLines(f)
    \/ \E f \in FileIds : WSyntax(f)
    \/ \E op \in {"module_tree", "symbols"} : QBegin(op, <<>>)
    \/ QTreeFileSet
    \/ \E f \in FileIds : QTreeText(f)
    \/ QTreeFinish
    \/ QSymbolsFileSet
    \/ \E f \in FileIds : QFileSymbols(f)
    \/ QSymbolsReturn

SpecE == EInit /\ [][ENext]_vars

(***************************************************************************)
(* The writer and a reader of symbols on the writable root.                *)
(***************************************************************************)
SInit == WritableDefault /\ NoReadonlyRoot /\ NoThreads /\ NoReader

SNext ==
    \/ ApplyBegin(None, MaxSymRevision)
    \/ \E rec \in Records : ApplyRecord(rec, MaxSymBatchLen, MaxSymRevision)
    \/ ApplyCommit
    \/ \E acc \in Accs : QBegin("symbols", acc)
    \/ QSymbolsFileSet
    \/ \E f \in FileIds : QFileSymbols(f)
    \/ QSymbolsReturn

SpecS == SInit /\ [][SNext]_vars

(***************************************************************************)
(* Properties of apply_changes and of the calls on the writable root       *)
(* (specification SpecW).  Between two batches `changes` is the last       *)
(* batch, `file_resolver` its override and `pre` the inputs it started     *)
(* from.                                                                   *)
(***************************************************************************)
DelIds(b) == {b[i].file_id : i \in {j \in 1..Len(b) : b[j].text = None}}
SetIds(b) == {b[i].file_id : i \in {j \in 1..Len(b) : b[j].text # None}}

AllPerms ==
    [n \in 0..(MaxBatchLen + 1) |->
        {p \in [1..n -> 1..n] : \A i, j \in 1..n : p[i] = p[j] => i = j}]
Perms(n) == AllPerms[n]
Permute(b, p) == [i \in 1..Len(b) |-> b[p[i]]]

AfterBatch == wpc = "idle" /\ revision > 0

\* C1: when apply_changes returns, the membership is (previous membership minus the
\* ids with a deletion record) union (the ids with a set record), and every
\* permutation of the batch gives that same membership.
C1_Membership ==
    [][(wpc = "loop" /\ wpc' = "idle") =>
        /\ file_set'.files =
              (pre.file_set.files \ DelIds(changes)) \cup SetIds(changes)
        /\ \A p \in Perms(Len(changes)) :
              FileSetAfter(pre.file_set, Permute(changes, p), file_resolver).files
                  = file_set'.files]_vars

\* a batch of three records that deletes a member, sets an absent id and
\* both sets and deletes another
C1_Witness ==
    /\ AfterBatch
    /\ Len(changes) = 3
    /\ \E f \in pre.file_set.files : f \in DelIds(changes) \ SetIds(changes)
    /\ \E f \in FileIds \ pre.file_set.files : f \in SetIds(changes)
    /\ file_set.files # pre.file_set.files

\* C2 as stated: with a set record (f, Some(t)) and a deletion record of f in
\* one batch, f is a member afterwards and its stored text is t.
C2_SetWinsAnyText ==
    AfterBatch =>
        \A i, j \in 1..Len(changes) :
            (/\ changes[i].text # None
             /\ changes[j].text = None
             /\ changes[i].file_id = changes[j].file_id)
            => /\ changes[i].file_id \in file_set.files
               /\ file_text[changes[i].file_id] = changes[i].text

\* index of the last set record of f in b (0 when there is none)
LastSet(b, f) ==
    LET S == {i \in 1..Len(b) : b[i].file_id = f /\ b[i].text # None}
    IN IF S = {} THEN 0 ELSE CHOOSE i \in S : \A j \in S : j <= i

\* C2: with a set record and a deletion record of f in one batch, whichever
\* comes first, f is a member afterwards and its stored text is the text of
\* the last set record of f in the batch; only ids that appear exclusively
\* as deletions are removed.
C2_SetWinsLastText ==
    AfterBatch =>
        /\ \A f \in SetIds(changes) \cap DelIds(changes) :
              /\ f \in file_set.files
              /\ file_text[f] = changes[LastSet(changes, f)].text
        /\ \A f \in pre.file_set.files \ file_set.files :
              f \in DelIds(changes) \ SetIds(changes)

\* [(f, Some(t)), (f, None)]: the deletion comes last and f stays, with t
C2_Witness ==
    /\ AfterBatch
    /\ Len(changes) = 2
    /\ changes[1].text # None
    /\ changes[2].text = None
    /\ changes[1].file_id = changes[2].file_id
    /\ changes[1].file_id \in file_set.files
    /\ file_text[changes[1].file_id] = changes[1].text

C12_Resolver ==
    /\ AfterBatch =>
          file_set.resolver =
              IF file_resolver = None THEN pre.file_set.resolver ELSE file_resolver
    /\ wpc = "loop" => file_set.resolver = pre.file_set.resolver

\* a batch of deletions only, without override, has kept a resolver that
\* an earlier batch had installed
C12_Witness ==
    /\ AfterBatch
    /\ file_resolver = None
    /\ Len(changes) > 0
    /\ SetIds(changes) = {}
    /\ pre.file_set.resolver # DefaultResolver
    /\ file_set.resolver = pre.file_set.resolver

\* the inputs of the writable root now
Now == [file_set |-> file_set, file_text |-> file_text]

\* C14: for every state of the writable root and every batch, applying the
\* batch a second time with the same override leaves the membership, the
\* stored texts and the resolver as the first application left them.
C14_Idempotent ==
    AfterBatch =>
        /\ Now = InputsAfter(pre, changes, file_resolver)
        /\ InputsAfter(Now, changes, file_resolver) = Now

\* a batch of three records with an override that has deleted a member and
\* set an absent id, so that the first application did change the root
C14_Witness ==
    /\ AfterBatch
    /\ Len(changes) = 3
    /\ file_resolver # None
    /\ pre.file_set.files \cap (DelIds(changes) \ SetIds(changes)) # {}
    /\ SetIds(changes) \ pre.file_set.files # {}
    /\ Now # pre
    /\ InputsAfter(Now, changes, file_resolver) = Now

\* C19: a deletion record takes its id out of the membership and leaves the
\* stored text of that id as it was; a stored text changes only on the step
\* of a set record of its id, to the text of that record; so an id that was
\* deleted and is set again has the text of the new set record.
C19_DeletionKeepsText ==
    /\ [](AfterBatch =>
            /\ \A f \in FileIds \ SetIds(changes) : file_text[f] = pre.file_text[f]
            /\ \A f \in DelIds(changes) \ SetIds(changes) : f \notin file_set.files
            /\ \A f \in SetIds(changes) :
                  /\ f \in file_set.files
                  /\ file_text[f] = changes[LastSet(changes, f)].text)
    /\ [][\A f \in FileIds :
             file_text'[f] # file_text[f] =>
                /\ wpc = "loop"
                /\ changes' = Append(changes, [file_id |-> f, text |-> file_text'[f]])
                /\ file_text'[f] \in Texts]_vars

\* an id whose text was kept by an earlier deletion has been set again: it
\* is a member with the new text, which differs from the kept one
C19_Witness ==
    /\ AfterBatch
    /\ \E f \in SetIds(changes) \ pre.file_set.files :
          /\ pre.file_text[f] # Unset
          /\ file_text[f] # pre.file_text[f]
          /\ f \in file_set.files

\* set records of f in b with two different texts
TwoTexts(b, f) ==
    \E i, j \in 1..Len(b) :
        /\ b[i].file_id = f /\ b[j].file_id = f
        /\ b[i].text # None /\ b[j].text # None
        /\ b[i].text # b[j].text

\* C20: when a batch holds several set records of one id, the text stored
\* when apply_changes returns is that of the last of them in the order of
\* the batch; the membership is the same for every order of the batch, the
\* text is not: with two different texts some other order leaves another text.
C20_LastTextWins ==
    [][(wpc = "loop" /\ wpc' = "idle") =>
          \A f \in SetIds(changes) :
             /\ file_text'[f] = changes[LastSet(changes, f)].text
             /\ TwoTexts(changes, f) =>
                   /\ \A p \in Perms(Len(changes)) :
                         LET after == InputsAfter(pre, Permute(changes, p), file_resolver)
                         IN /\ after.file_set = file_set'
                            /\ after.file_text[f] =
                                  Permute(changes, p)[LastSet(Permute(changes, p), f)].text
                   /\ \E p \in Perms(Len(changes)) :
                         InputsAfter(pre, Permute(changes, p), file_resolver).file_text[f]
                             # file_text'[f]]_vars

\* a batch of three records that sets one id to two different texts: the
\* stored text is the later one
C20_Witness ==
    /\ AfterBatch
    /\ Len(changes) = 3
    /\ \E f \in FileIds :
          /\ TwoTexts(changes, f)
          /\ changes[1].file_id = f /\ changes[1].text # None
          /\ file_text[f] # changes[1].text
          /\ file_text[f] = changes[LastSet(changes, f)].text

(***************************************************************************)
(* Properties of the writable root with all of its operations              *)
(* (specification SpecE).                                                  *)
(***************************************************************************)
\* a step of contains, lines or syntax, or of the reader of module_tree and
\* symbols
ReadStep == wres' # wres \/ q' # q \/ qret' # qret

\* C15: a writable root starts without members (contains is false for
\* every id before the first batch), and its membership, stored texts and
\* resolver change only inside apply_changes: no step of contains, lines,
\* syntax, module_tree or symbols changes them, whether the call returns a
\* value, returns Canceled or faults.
C15_OnlyBatchesWrite ==
    /\ [](revision = 0 => \A f \in FileIds : ~WContainsValue(f) /\ file_text[f] = Unset)
    /\ [][/\ Now' # Now => wpc = "loop"
          /\ (ReadStep /\ wpc' = wpc) => Now' = Now]_vars

\* between two batches, with a member in the root: lines has faulted on a
\* non-member, a symbols call has returned Canceled, and the inputs are
\* still those the last batch left
C15_Witness ==
    /\ file_set.files # {}
    /\ wpc = "idle"
    /\ wres.tag = "call" /\ wres.op = "lines" /\ wres.status = "panic"
    /\ qret.tag = "call" /\ qret.op = "symbols" /\ qret.status = "Canceled"
    /\ Now = InputsAfter(pre, changes, file_resolver)

\* a step of apply_changes: its entry, one record of the loop, its last write
WriterStep == wpc' # wpc \/ changes' # changes

\* C17: apply_changes writes texts and the FileSet and derives nothing: no
\* step of it produces a line index, a syntax tree, a module tree or a
\* symbol index; these come out of the steps of a read alone, and a read
\* after the batch derives them from the inputs the batch has left.
C17_BatchDerivesNothing ==
    /\ [][WriterStep =>
             /\ q' = q
             /\ qret' = qret
             /\ wres' = wres \/ wres' = NoCall]_vars
    /\ [][(wres' # wres /\ wres' # NoCall) =>
             /\ ~WriterStep
             /\ wres'.op = "lines" /\ wres'.status = "returned" =>
                   wres'.val = LineIndexNew(file_text[wres'.file_id])
             /\ wres'.op = "syntax" /\ wres'.status = "returned" =>
                   wres'.val = FileParse(file_text[wres'.file_id])]_vars
    /\ [][(qret' # qret /\ qret' # NoCall) => ~WriterStep]_vars

\* after a batch that has admitted a file with its text, syntax has
\* returned the tree of that text and module_tree the tree of the new inputs
C17_Witness ==
    /\ AfterBatch
    /\ \E f \in file_set.files \ pre.file_set.files :
          /\ file_text[f] # pre.file_text[f]
          /\ wres = RetVal("syntax", f, FileParse(file_text[f]))
    /\ qret = RetTree("Ok", DbModuleTree(file_set, file_text))
    /\ ~q.stale

(***************************************************************************)
(* Properties of the read-only root (specification SpecR).                 *)
(***************************************************************************)
Ops == {"lines", "syntax"}

\* thread t has just got the result of a lines or syntax call
Returned(t) == rret'[t] # rret[t] /\ rret'[t].tag = "call" /\ rret'[t].op \in Ops

\* C5: once built, the membership, the text of every file, the module tree
\* handle and the symbol index handle of a read-only root never change,
\* whatever calls are made on it, faulting ones included.
C5_ReadonlyFixed ==
    [][cpc = "built" =>
          /\ cpc' = "built"
          /\ \A f \in FileIds :
                /\ file_map'[f].present = file_map[f].present
                /\ file_map'[f].text = file_map[f].text
          /\ module_tree' = module_tree
          /\ symbol_index' = symbol_index]_vars

\* a built root on which a call has faulted and a memo cell has been filled
C5_Witness ==
    /\ cpc = "built"
    /\ \E t \in Threads : rret[t].status = "panic"
    /\ \E t \in Threads : rret[t].op = "symbols"
    /\ \E f \in FileIds : file_map[f].lines # NoResult

\* C6: for every member f of a read-only root, every lines(f) call returns
\* the one handle computed by the first call, and every syntax(f) call
\* likewise: the closure of a cell runs once and never again.
C6_SameHandle ==
    \A f \in FileIds, op \in Ops :
        /\ Runs(file_map[f], op) <= 1
        /\ Cell(file_map[f], op) \in {NoResult, Handle(Derive(op, file_map[f].text), 1)}
        /\ \A t \in Threads :
              (rret[t].tag = "call" /\ rret[t].op = op /\ rret[t].file_id = f
                  /\ rret[t].status = "returned")
              => rret[t].val = Handle(Derive(op, file_map[f].text), 1)

\* both threads have had lines(f) returned, and syntax(f) has been computed
C6_Witness ==
    \E f \in FileIds :
        /\ \A t \in Threads :
              rret[t].op = "lines" /\ rret[t].file_id = f /\ rret[t].status = "returned"
        /\ file_map[f].lines_runs = 1
        /\ file_map[f].syntax_runs = 1

\* C7: under every interleaving of first calls on one memo cell, one value
\* is committed to the cell, a committed value is never overwritten, at most
\* one thread runs the closure, and every thread returns the committed value.
C7_OneCommit ==
    [][\A f \in FileIds, op \in Ops :
          /\ CellFilled(Cell(file_map[f], op))
                => Cell(file_map'[f], op) = Cell(file_map[f], op)
          /\ Runs(file_map'[f], op) <= 1
          /\ Cardinality({t \in Threads : thr'[t] = [pc |-> "init", op |-> op, file_id |-> f]}) <= 1
          /\ \A t \in Threads :
                (Returned(t) /\ rret'[t].op = op /\ rret'[t].file_id = f
                    /\ rret'[t].status = "returned")
                => /\ CellFilled(rret'[t].val)
                   /\ rret'[t].val = Cell(file_map'[f], op)]_vars

\* one thread is running the closure of a cell while the other has entered
\* the same first call and waits
C7_Witness ==
    \E f \in FileIds, op \in Ops :
        /\ thr["t1"] = [pc |-> "init", op |-> op, file_id |-> f]
        /\ thr["t2"] = [pc |-> "get_or_init", op |-> op, file_id |-> f]
        /\ ~CellFilled(Cell(file_map[f], op))

\* the construction done by one thread, file after file
SeqModules(list) == [i \in 1..Len(list) |-> ParseOne(list[i])]
SeqSymbols(list) == [i \in 1..Len(list) |-> SymbolsOne(SeqModules(list)[i])]

\* C8: whatever the order in which the workers of the two parallel phases
\* finish, the module tree and the symbol index of the built root are those
\* of a sequential construction over the same file list.
C8_ScheduleIndependent ==
    cpc \in {"merged", "built"} =>
        /\ module_tree = ModuleTreeDescriptorNew(SeqModules(files), ro_resolver)
        /\ symbol_index = SymbolIndexForFiles(SeqSymbols(files))

\* a root built from two different files whose workers finished in reverse
\* order in both phases
C8_Witness ==
    /\ cpc = "merged"
    /\ Len(files) = 2
    /\ files[1] # files[2]
    /\ order = [parse |-> <<2, 1>>, symbols |-> <<2, 1>>]

\* C10: on a read-only root lines(f) and syntax(f) panic exactly when
\* contains(f) is false, that is when f is not in the file list given to
\* the constructor; for a member they return a value; they never return
\* Canceled; and a panicking call leaves the root as it was.
C10_FaultIffNotMember ==
    [][\A t \in Threads :
          Returned(t) =>
             /\ rret'[t].status = "panic" <=> ~RContainsValue(rret'[t].file_id)
             /\ RContainsValue(rret'[t].file_id)
                   <=> \E i \in 1..Len(files) : files[i].file_id = rret'[t].file_id
             /\ rret'[t].status \in {"panic", "returned"}
             /\ rret'[t].status = "returned" => CellFilled(rret'[t].val)
             /\ rret'[t].status = "panic" => UNCHANGED <<cvars, thr>>]_vars

\* one call has panicked on an id outside the file list and another has
\* returned a value for a member
C10_Witness ==
    /\ cpc = "built"
    /\ \E t \in Threads :
          /\ rret[t].op \in Ops /\ rret[t].status = "panic"
          /\ ~RContainsValue(rret[t].file_id)
    /\ \E t \in Threads :
          /\ rret[t].op \in Ops /\ rret[t].status = "returned"
          /\ RContainsValue(rret[t].file_id)

Last(sq) == sq[Len(sq)]

\* C13: every symbols(acc) of a read-only root returns Ok with acc longer
\* by exactly one element, the elements acc held before unchanged in front
\* of it; the new element is the symbol index built by the constructor, the
\* same for every call and every thread, and the call leaves it unchanged.
C13_OneSharedHandle ==
    [][\A t \in Threads, acc \in Accs :
          RSymbols(t, acc) =>
             /\ rret'[t].status = "Ok"
             /\ Len(rret'[t].acc) = Len(acc) + 1
             /\ SubSeq(rret'[t].acc, 1, Len(acc)) = acc
             /\ Last(rret'[t].acc) = symbol_index
             /\ symbol_index = SymbolIndexForFiles(SeqSymbols(files))
             /\ symbol_index' = symbol_index
             /\ acc = <<>> => rret'[t].acc = <<symbol_index>>
             /\ \A u \in Threads :
                   rret[u].tag = "call" /\ rret[u].op = "symbols"
                       => Last(rret[u].acc) = Last(rret'[t].acc)]_vars

\* on a root of two files one thread has appended to an empty accumulator
\* and the other to one that held an index of another root
C13_Witness ==
    /\ cpc = "built"
    /\ Len(files) = 2
    /\ rret["t1"].tag = "call" /\ rret["t1"].op = "symbols"
    /\ rret["t2"].tag = "call" /\ rret["t2"].op = "symbols"
    /\ rret["t1"].acc = <<symbol_index>>
    /\ rret["t2"].acc = <<OtherIndex, symbol_index>>
    /\ symbol_index # OtherIndex

(***************************************************************************)
(* Properties of FileData::syntax when the parser panics (specification    *)
(* SpecF).                                                                 *)
(***************************************************************************)
\* thread t is inside a syntax call on a file whose text makes the parser panic
ParserFaults(t) ==
    /\ thr[t].op = "syntax"
    /\ thr[t].pc \in {"init", "caught", "logged"}
    /\ FileParse(Data(file_map, thr[t].file_id).text) = Fault

\* C11: when the parser panics inside a lazy syntax(f) of a read-only root,
\* the call emits the text of f through error! and then raises the panic
\* again: it returns no syntax tree and no Canceled, it stores nothing in
\* the syntax cell of f, and the cell is still empty after the panic.
C11_LogThenReraise ==
    [][\A t \in Threads :
          ParserFaults(t) =>
             LET f == thr[t].file_id
                 text == Data(file_map, f).text
             IN /\ file_map'[f].text = text
                /\ file_map'[f].syntax = NoResult
                /\ file_map'[f].syntax_runs = 0
                /\ thr'[t] # thr[t] =>
                      \/ /\ thr[t].pc = "init" /\ thr'[t].pc = "caught"
                         /\ UNCHANGED <<rret, log>>
                      \/ /\ thr[t].pc = "caught" /\ thr'[t].pc = "logged"
                         /\ log' = Append(log, text)
                         /\ UNCHANGED rret
                      \/ /\ thr[t].pc = "logged" /\ thr'[t] = Idle
                         /\ log[Len(log)] \in BadTexts
                         /\ \E k \in 1..Len(log) : log[k] = text
                         /\ rret'[t] = RetVal("syntax", f, Fault)
                         /\ rret'[t].status = "panic"
                         /\ UNCHANGED log]_vars

\* both threads have had the parser panic on the same file: two diagnostics
\* with its text, two panics, and the syntax cell still empty
C11_Witness ==
    /\ \A t \in Threads :
          /\ thr[t] = Idle
          /\ rret[t] = RetVal("syntax", 1, Fault)
    /\ file_map[1].present
    /\ file_map[1].text \in BadTexts
    /\ file_map[1].syntax = NoResult
    /\ log = <<file_map[1].text, file_map[1].text>>

(***************************************************************************)
(* Properties of a read that runs beside apply_changes (specification      *)
(* SpecC).  After a call of the reader, q.stale tells whether a revision    *)
(* was committed while the call was in flight, and q.snap holds the inputs *)
(* the call started from (for symbols: the inputs when it read the file    *)
(* set).                                                                   *)
(***************************************************************************)
ReaderGot(op, root) == qret.tag = "call" /\ qret.op = op /\ q.root = root

\* C16: inside one apply_changes the text of a set record is in the store
\* as soon as the record is processed, and the FileSet (membership and
\* resolver together) is written once, in one step, after all text writes:
\* the store, and so every reader of it, holds the FileSet from before the
\* batch until that step and the final one after it, while a text is
\* readable before the FileSet that admits its file.
C16_TextsThenFileSet ==
    /\ [](wpc = "loop" =>
            /\ file_set = pre.file_set
            /\ file_text = InputsAfter(pre, changes, file_resolver).file_text)
    /\ [](AfterBatch => Now = InputsAfter(pre, changes, file_resolver))
    /\ [][/\ file_text' # file_text =>
                /\ wpc = "loop" /\ wpc' = "loop"
                /\ file_set' = file_set
                /\ file_text' = [file_text EXCEPT ![Last(changes').file_id] = Last(changes').text]
          /\ (file_set' # file_set \/ (wpc = "loop" /\ wpc' = "idle")) =>
                /\ wpc = "loop" /\ wpc' = "idle"
                /\ file_text' = file_text
                /\ revision' = revision + 1
                /\ file_set' = InputsAfter(pre, changes, file_resolver).file_set
          /\ (q'.snap # q.snap /\ q'.pc # "idle") =>
                /\ q'.snap = Now
                /\ wpc = "loop" => q'.snap.file_set = pre.file_set]_vars

\* inside a batch with an override, a reader has read the store after a
\* text write: it holds the new text of a file that the FileSet it holds,
\* the one from before the batch, does not admit
C16_Witness ==
    /\ wpc = "loop"
    /\ file_resolver # None
    /\ q.pc = "sym_loop"
    /\ q.snap = Now
    /\ q.snap.file_set = pre.file_set
    /\ \E f \in FileIds \ q.snap.file_set.files :
          /\ q.snap.file_text[f] # pre.file_text[f]
          /\ f \in changed

\* C18: symbols(acc) of the writable root only appends.  The elements acc
\* held before stay in front, unchanged.  On Ok it has appended one index
\* per file of the membership the call read (nothing for an empty root);
\* on Canceled it has appended the indexes of the files it had processed
\* before the cancellation, and these stay in acc.
C18_AppendOnly ==
    /\ [](ReaderGot("symbols", "rw") =>
            LET old == q.acc0
                new == qret.acc
                n == Len(new) - Len(old)
                added == {new[i] : i \in (Len(old) + 1)..Len(new)}
            IN /\ n >= 0
               /\ SubSeq(new, 1, Len(old)) = old
               /\ Cardinality(added) = n
               /\ added = {DbFileSymbols(f, q.snap.file_text[f]) : f \in q.fs.files \ q.todo}
               /\ qret.status \in {"Ok", "Canceled"}
               /\ qret.status = "Ok" => q.todo = {} /\ n = Cardinality(q.fs.files)
               /\ qret.status = "Canceled" => q.todo # {} /\ n < Cardinality(q.fs.files)
               /\ q.fs.files = {} => qret.status = "Ok" /\ new = old)
    /\ [][(q.pc = "sym_loop" /\ q'.acc # q.acc) =>
             /\ Len(q'.acc) = Len(q.acc) + 1
             /\ SubSeq(q'.acc, 1, Len(q.acc)) = q.acc]_vars

\* symbols, given an accumulator that held an index, has returned Canceled
\* after one of two files: the accumulator holds the old index and the
\* index of that file
C18_Witness ==
    /\ ReaderGot("symbols", "rw")
    /\ qret.status = "Canceled"
    /\ q.acc0 = <<OtherIndex>>
    /\ Cardinality(q.fs.files) = 2
    /\ Len(qret.acc) = 2
    /\ qret.acc[1] = OtherIndex

\* the result is computed from the inputs of the one snapshot q.snap
SingleSnapshot ==
    /\ qret.op = "module_tree"
          => qret.tree = DbModuleTree(q.snap.file_set, q.snap.file_text)
    /\ qret.op = "symbols"
          => /\ Len(qret.acc) = Len(q.acc0) + Cardinality(q.snap.file_set.files)
             /\ SubSeq(qret.acc, 1, Len(q.acc0)) = q.acc0
             /\ {qret.acc[i] : i \in Len(q.acc0) + 1 .. Len(qret.acc)}
                   = {DbFileSymbols(f, q.snap.file_text[f]) : f \in q.snap.file_set.files}

C9_CanceledOnlyWritable ==
    /\ \A op \in {"module_tree", "symbols"} :
          ReaderGot(op, "ro") => qret.status = "Ok"
    /\ qret.status = "Canceled"
          => /\ q.root = "rw"
             /\ qret.op \in {"module_tree", "symbols"}
             /\ q.stale

\* module_tree() of the read-only root has returned Ok while the writer is
\* inside a batch that has already written a text
C9_Witness ==
    /\ ReaderGot("module_tree", "ro")
    /\ qret.status = "Ok"
    /\ qret.tree = module_tree
    /\ wpc = "loop"
    /\ changed # {}

====
